---------------------------- MODULE Spec2Model ----------------------------
(***************************************************************************)
(* A model of the hwpExtractor repository: the compound-binary extractor   *)
(* hwpExtractor (src/hwpExtractor.py), the xml-package extractor           *)
(* hwpxExtractor (src/hwpxExtractor.py) and the multi-version extractor    *)
(* HWPTextExtractor (src/hwpTextExtractor.py).                             *)
(*                                                                         *)
(* Bytes are naturals 0..255, byte buffers are sequences of bytes, and a   *)
(* Python str is the sequence of its code points.  A Python slice b[m:n]   *)
(* is Slice(b, m, n) and clips at the end of the buffer as Python does.    *)
(* One call of one entry point is one behaviour: Init chooses the entry    *)
(* point (op) and the document, the actions are the steps of that call.    *)
(***************************************************************************)
EXTENDS Integers, Sequences, FiniteSets, TLC

VARIABLES
    op,            \* the entry point that was called
    doc,           \* the document (or string) the call was given
    pc,            \* the position of the call in the code
    version,       \* HWPTextExtractor.file_version
    is_zipped,     \* get_text: is_zipped; _extract_from_hwp5: is_compressed ("unbound" before assignment)
    sections,      \* the section list the orchestrator enumerated, in processing order
    k,             \* number of sections the section loop has finished
    data,          \* the buffer the record loop reads (unzipped_data / data)
    i,             \* the record loop's cursor (i / offset)
    section_text,  \* get_text: section_text
    texts,         \* _parse_hwp5_text: texts; extract_text: texts
    text,          \* get_text / get_hwp5_text: text
    page_results,  \* HWPTextExtractor: page_results
    result,        \* what the call returned
    exc,           \* the exception that left the call ("none": no exception)
    emitted,       \* history: the payloads of the current section handed to decoding
    retried        \* history: get_text took the get_hwp5_text retry path

vars == << op, doc, pc, version, is_zipped, sections, k, data, i, section_text,
           texts, text, page_results, result, exc, emitted, retried >>

-----------------------------------------------------------------------------
(* Bounds of the model.                                                    *)

MaxRecords == 2      \* records in a generated record buffer
MaxSections == 2     \* BodyText sections / package section members in a document
MaxStrLen == 4       \* length of the strings given to clean_text
MaxParas == 2        \* paragraphs of a section's XML

-----------------------------------------------------------------------------
(* Python values.                                                          *)

None == [kind |-> "None"]
Str(s) == [kind |-> "str", s |-> s]
List(l) == [kind |-> "list", s |-> l]

Min(a, b) == IF a < b THEN a ELSE b

\* b[m:n] for 0 <= m, with Python's clipping
Slice(b, m, n) == SubSeq(b, m + 1, Min(n, Len(b)))

RECURSIVE Concat(_)
Concat(ss) == IF ss = << >> THEN << >> ELSE Head(ss) \o Concat(Tail(ss))

\* sep.join(ss)
RECURSIVE Join(_, _)
Join(sep, ss) ==
    IF ss = << >> THEN << >>
    ELSE IF Len(ss) = 1 THEN Head(ss)
    ELSE Head(ss) \o sep \o Join(sep, Tail(ss))

\* all sequences over S of length 0..n
SeqsUpTo(S, n) == UNION { [1..m -> S] : m \in 0..n }

NEWLINE == << 10 >>
SPACE == << 32 >>

-----------------------------------------------------------------------------
(* Text sanitizer: hwpExtractor.clean_text.                                *)

\* the characters of the regular expression class [\u4e00-\u9fff]
IsChinese(c) == c >= 19968 /\ c <= 40959

\* unicodedata.category(ch)[0] == "C", for the code points the model's
\* buffers and strings produce: Cc 0000..001F and 007F..009F, Cf 00AD and
\* 200B..200F, Cs and Co D800..F8FF, Cn FF00 and FFF0..FFF8, Cf FFF9..FFFB,
\* Cn FFFE..FFFF
IsControlCategory(c) ==
    \/ c <= 31
    \/ c >= 127 /\ c <= 159
    \/ c = 173
    \/ c >= 8203 /\ c <= 8207
    \/ c >= 55296 /\ c <= 63743
    \/ c >= 65520 /\ c <= 65531
    \/ c \in {65280, 65534, 65535}

\* s with its leading run of Chinese characters dropped
RECURSIVE DropChineseRun(_)
DropChineseRun(s) ==
    IF s # << >> /\ IsChinese(Head(s)) THEN DropChineseRun(Tail(s)) ELSE s

\* re.sub(r'[\u4e00-\u9fff]+', '', s) with only the first run replaced (count=1)
RECURSIVE remove_first_chinese_run(_)
remove_first_chinese_run(s) ==
    IF s = << >> THEN << >>
    ELSE IF IsChinese(Head(s)) THEN DropChineseRun(s)
    ELSE << Head(s) >> \o remove_first_chinese_run(Tail(s))

\* re.sub(r'[\u4e00-\u9fff]+', '', s): every maximal run is replaced by ''
RECURSIVE remove_chinese_characters(_)
remove_chinese_characters(s) ==
    IF s = << >> THEN << >>
    ELSE IF IsChinese(Head(s)) THEN remove_chinese_characters(DropChineseRun(s))
    ELSE << Head(s) >> \o remove_chinese_characters(Tail(s))

remove_control_characters(s) == SelectSeq(s, LAMBDA ch : ~IsControlCategory(ch))

clean_text(s) == remove_control_characters(remove_chinese_characters(s))

-----------------------------------------------------------------------------
(* Byte decoder: the codecs bytes.decode uses.  A decode gives             *)
(* [ok |-> TRUE, s |-> the string] or [ok |-> FALSE] (UnicodeDecodeError).  *)
(* The codecs are exact for buffers over ByteAlphabet: the bytes 00..7F    *)
(* and, above them, only D8 and FF.                                        *)

ByteAlphabet == 0..127 \cup {216, 255}

Decoded(s) == [ok |-> TRUE, s |-> s]
DecodeError == [ok |-> FALSE, s |-> << >>]

\* the 16-bit code units of an even-length buffer, little- or big-endian
RECURSIVE Utf16Units(_, _)
Utf16Units(b, bigEndian) ==
    IF Len(b) < 2 THEN << >>
    ELSE << IF bigEndian THEN 256 * b[1] + b[2] ELSE b[1] + 256 * b[2] >>
         \o Utf16Units(Tail(Tail(b)), bigEndian)

IsHighSurrogate(u) == u >= 55296 /\ u <= 56319
IsLowSurrogate(u) == u >= 56320 /\ u <= 57343

\* code units to code points; with ignore, a unit that cannot be decoded is dropped
RECURSIVE Utf16Chars(_, _)
Utf16Chars(u, ignore) ==
    IF u = << >> THEN Decoded(<< >>)
    ELSE IF IsHighSurrogate(u[1]) /\ Len(u) >= 2 /\ IsLowSurrogate(u[2])
    THEN LET rest == Utf16Chars(Tail(Tail(u)), ignore)
         IN  IF rest.ok
             THEN Decoded(<< 65536 + 1024 * (u[1] - 55296) + (u[2] - 56320) >> \o rest.s)
             ELSE DecodeError
    ELSE IF IsHighSurrogate(u[1]) \/ IsLowSurrogate(u[1])
    THEN IF ignore THEN Utf16Chars(Tail(u), ignore) ELSE DecodeError
    ELSE LET rest == Utf16Chars(Tail(u), ignore)
         IN  IF rest.ok THEN Decoded(<< u[1] >> \o rest.s) ELSE DecodeError

\* b.decode('utf-16'): a byte order mark chooses the byte order and is
\* dropped, little-endian without one; an odd length is "truncated data"
DecodeUtf16(b) ==
    LET hasLE == Len(b) >= 2 /\ b[1] = 255 /\ b[2] = 254
        hasBE == Len(b) >= 2 /\ b[1] = 254 /\ b[2] = 255
        body == IF hasLE \/ hasBE THEN Tail(Tail(b)) ELSE b
        chars == Utf16Chars(Utf16Units(body, hasBE), FALSE)
    IN  IF chars.ok /\ Len(body) % 2 = 0 THEN chars ELSE DecodeError

\* b.decode('utf-16le', errors='ignore'): no byte order mark handling, a
\* trailing odd byte and unpaired surrogates are dropped
DecodeUtf16leIgnore(b) == Utf16Chars(Utf16Units(b, FALSE), TRUE).s

\* b.decode('utf-8'): one-byte and two-byte forms (the lead bytes E0..F4 of
\* the longer forms are outside ByteAlphabet)
RECURSIVE DecodeUtf8(_)
DecodeUtf8(b) ==
    IF b = << >> THEN Decoded(<< >>)
    ELSE IF b[1] < 128
    THEN LET rest == DecodeUtf8(Tail(b))
         IN  IF rest.ok THEN Decoded(<< b[1] >> \o rest.s) ELSE DecodeError
    ELSE IF b[1] >= 194 /\ b[1] <= 223 /\ Len(b) >= 2 /\ b[2] >= 128 /\ b[2] <= 191
    THEN LET rest == DecodeUtf8(Tail(Tail(b)))
         IN  IF rest.ok
             THEN Decoded(<< 64 * (b[1] - 192) + (b[2] - 128) >> \o rest.s)
             ELSE DecodeError
    ELSE DecodeError

\* the two-byte table of cp949 and of euc-kr, cut to the pairs over
\* ByteAlphabet: D8 D8 is U+57CB in both; a lead byte D8 takes no trail byte
\* below A1, and FF is no lead byte
KoreanPair(lead, trail) == IF lead = 216 /\ trail = 216 THEN 22475 ELSE 0

RECURSIVE DecodeKorean(_)
DecodeKorean(b) ==
    IF b = << >> THEN Decoded(<< >>)
    ELSE IF b[1] < 128
    THEN LET rest == DecodeKorean(Tail(b))
         IN  IF rest.ok THEN Decoded(<< b[1] >> \o rest.s) ELSE DecodeError
    ELSE IF Len(b) >= 2 /\ KoreanPair(b[1], b[2]) # 0
    THEN LET rest == DecodeKorean(Tail(Tail(b)))
         IN  IF rest.ok THEN Decoded(<< KoreanPair(b[1], b[2]) >> \o rest.s)
             ELSE DecodeError
    ELSE DecodeError

DecodeCp949(b) == DecodeKorean(b)
DecodeEucKr(b) == DecodeKorean(b)

\* rec_data.decode(encoding)
Decode(encoding, b) ==
    CASE encoding = "utf-16" -> DecodeUtf16(b)
      [] encoding = "utf-8" -> DecodeUtf8(b)
      [] encoding = "cp949" -> DecodeCp949(b)
      [] encoding = "euc-kr" -> DecodeEucKr(b)

Encodings == << "utf-16", "utf-8", "cp949", "euc-kr" >>

\* the for loop of decode_text from the n-th encoding on: the first decode
\* that raises no UnicodeDecodeError is returned; the loop falling through
\* returns None
RECURSIVE DecodeFrom(_, _)
DecodeFrom(n, rec_data) ==
    IF n > Len(Encodings) THEN None
    ELSE LET r == Decode(Encodings[n], rec_data)
         IN  IF r.ok THEN Str(r.s) ELSE DecodeFrom(n + 1, rec_data)

decode_text(rec_data) == DecodeFrom(1, rec_data)

-----------------------------------------------------------------------------
(* The record grammar: a 4-byte little-endian header holding tag_id (bits  *)
(* 0..9), level (bits 10..19) and size (bits 20..31), then the payload.    *)
(* The fields are computed from the four bytes, which is what the shifts   *)
(* and masks of the code compute from the unpacked 32-bit value.           *)

PARA_TEXT == 67
SKIP_TAG == 51
EXTENDED_SIZE == 4095

\* header & 0x3ff, for the header at offset p
TagAt(b, p) == (b[p + 1] + 256 * b[p + 2]) % 1024
\* (header >> 20) & 0xfff
SizeAt(b, p) == (b[p + 3] \div 16) + 16 * b[p + 4]
\* struct.unpack('<I', b[p:p+4])[0]; the model's buffers keep it below 2^31
U32At(b, p) == b[p + 1] + 256 * b[p + 2] + 65536 * b[p + 3] + 16777216 * b[p + 4]

-----------------------------------------------------------------------------
(* Raw deflate: zlib.decompress(data, -15), for the buffers of the model.  *)
(* A compressed stream is one final stored block: 01, LEN (2 bytes), ~LEN  *)
(* (2 bytes), LEN literal bytes.  A buffer that starts 33 00 (a record of  *)
(* tag 51, level 0) is a final fixed-Huffman block holding the literal "0" *)
(* and the end-of-block code, and zlib ignores what follows it.  Any other *)
(* buffer of the model raises zlib.error.                                  *)

Deflate(b) ==
    << 1, Len(b) % 256, Len(b) \div 256, 255 - (Len(b) % 256), 255 - (Len(b) \div 256) >> \o b

Inflate(b) ==
    IF /\ Len(b) >= 5
       /\ b[1] = 1
       /\ b[4] = 255 - b[2]
       /\ b[5] = 255 - b[3]
       /\ Len(b) = 5 + b[2] + 256 * b[3]
    THEN [ok |-> TRUE, bytes |-> Slice(b, 5, Len(b))]
    ELSE IF Len(b) >= 2 /\ b[1] = 51 /\ b[2] = 0
    THEN [ok |-> TRUE, bytes |-> << 48 >>]
    ELSE [ok |-> FALSE, bytes |-> << >>]

-----------------------------------------------------------------------------
(* The documents the calls are given.                                      *)

\* the four header bytes of a record
HeaderBytes(tag, level, size) ==
    << tag % 256, (tag \div 256) + 4 * (level % 64),
       (level \div 64) + 16 * (size % 16), size \div 16 >>

LE32(n) == << n % 256, (n \div 256) % 256, (n \div 65536) % 256, n \div 16777216 >>

Rec(tag, level, ext, payload) ==
    [tag |-> tag, level |-> level, ext |-> ext, payload |-> payload]

\* a record as the format stores it; ext: the size field holds 0xFFF and the
\* true size follows the header in four bytes
EncodeRecord(r) ==
    IF r.ext
    THEN HeaderBytes(r.tag, r.level, EXTENDED_SIZE) \o LE32(Len(r.payload)) \o r.payload
    ELSE HeaderBytes(r.tag, r.level, Len(r.payload)) \o r.payload

RECURSIVE EncodeRecords(_)
EncodeRecords(rs) ==
    IF rs = << >> THEN << >> ELSE EncodeRecord(Head(rs)) \o EncodeRecords(Tail(rs))

TextAB == << 65, 0, 66, 0 >>     \* "AB" in UTF-16LE
TextB == << 66, 0 >>             \* "B" in UTF-16LE

RecordKinds ==
    { Rec(PARA_TEXT, 0, FALSE, TextAB),
      Rec(PARA_TEXT, 0, FALSE, << >>),
      Rec(PARA_TEXT, 0, FALSE, << 255 >>),        \* decodes under no encoding
      Rec(PARA_TEXT, 1, FALSE, << 65 >>),         \* odd length: UTF-8 "A"
      Rec(PARA_TEXT, 0, FALSE, << 216, 216 >>),   \* CP949 U+57CB
      Rec(SKIP_TAG, 0, FALSE, << 7, 7 >>),
      Rec(SKIP_TAG, 0, FALSE, << >>),
      Rec(66, 1, FALSE, TextB),
      Rec(PARA_TEXT, 0, TRUE, TextB),
      Rec(SKIP_TAG, 0, TRUE, << 7 >>) }

\* what may follow the last record: nothing, 1 or 3 stray bytes, or a
\* record whose declared size (4) exceeds the 2 bytes that remain
Tails ==
    { << >>, << 67 >>, << 67, 0, 64 >>, HeaderBytes(PARA_TEXT, 0, 4) \o << 65, 0 >> }

\* a stream of the container: the records and tail of its record buffer, and
\* how the buffer is stored
Stream(recs, tail, stored) == [recs |-> recs, tail |-> tail, stored |-> stored]

RecordBuffer(st) == EncodeRecords(st.recs) \o st.tail

\* the bytes stream.read() returns
Raw(st) ==
    CASE st.stored = "plain" -> RecordBuffer(st)
      [] st.stored = "deflated" -> Deflate(RecordBuffer(st))
      [] st.stored = "corrupt" -> << 1, 0, 0, 0, 0 >> \o RecordBuffer(st)

RichStreams ==
    { Stream(recs, tail, "plain") : recs \in SeqsUpTo(RecordKinds, MaxRecords), tail \in Tails }

SmallStreams ==
    { Stream(<< Rec(PARA_TEXT, 0, FALSE, TextAB) >>, << >>, "deflated"),
      Stream(<< Rec(PARA_TEXT, 0, FALSE, TextB) >>, << >>, "plain"),
      Stream(<< Rec(PARA_TEXT, 0, FALSE, TextAB) >>, << >>, "corrupt") }

SectionNumbers == {0, 2, 10}

Range(f) == { f[x] : x \in DOMAIN f }
IsInjective(f) == \A x, y \in DOMAIN f : f[x] = f[y] => x = y

\* the BodyText entries of listdir(), in listing order: [num, stream]
Listings(streams) ==
    { l \in SeqsUpTo([num : SectionNumbers, stream : streams], MaxSections) :
        IsInjective([x \in DOMAIN l |-> l[x].num]) }

SectionNames == { "Contents/section0.xml", "Contents/section1.xml" }
PackageNames ==
    SectionNames \cup { "BodyText/section0.xml", "Contents/content.hpf" }

NoXml == [kind |-> "malformed", paras |-> << >>]

\* a document: kind is what its signature says ("ole": compound file magic,
\* "zip": ZIP archive, "hwp3": legacy signature, "other"), ext its file name
\* extension, opens whether the container library opens it; header is the
\* FileHeader stream ("none": absent, "short": under 40 bytes, "flag0" /
\* "flag1": bit 0 of byte 36), summary whether \x05HwpSummaryInformation is
\* listed, dirs the BodyText entries, members the archive's members
\* [name, stream, xml] in namelist() order, body the bytes after offset 512,
\* vlm the text the transcription service answers for each BinData stream
Doc(kind, ext, opens, header, summary, dirs, members, body) ==
    [kind |-> kind, ext |-> ext, opens |-> opens, header |-> header,
     summary |-> summary, dirs |-> dirs, members |-> members, body |-> body,
     vlm |-> << >>]

OleDoc(header, summary, dirs) ==
    Doc("ole", "hwp", TRUE, header, summary, dirs, << >>, << >>)

Headers == { "none", "short", "flag0", "flag1" }

OleParserDocs ==
    { OleDoc("flag0", TRUE, << [num |-> 0, stream |-> st] >>) : st \in RichStreams }

OleSectionDocs ==
    { OleDoc(h, sm, l) : h \in Headers, sm \in BOOLEAN, l \in Listings(SmallStreams) }

UnopenableDocs ==
    { Doc(kd, "hwp", FALSE, "none", FALSE, << >>, << >>, << >>) : kd \in {"ole", "zip", "other"} }

Member(name, stream, xml) == [name |-> name, stream |-> stream, xml |-> xml]

\* archives whose members hold record streams
RecordPackages ==
    { Doc("zip", "hwp", TRUE, "none", FALSE, << >>, ms, << >>) :
        ms \in { l \in SeqsUpTo({ Member(n, st, NoXml) :
                                    n \in { "Contents/section0.xml", "Contents/section1.xml",
                                            "BodyText/section0.xml" },
                                    st \in SmallStreams }, MaxSections) :
                   IsInjective([x \in DOMAIN l |-> l[x].name]) } }
    \cup
    { Doc("zip", "hwp", TRUE, "none", FALSE, << >>,
          << Member("Contents/section0.xml", st, NoXml) >>, << >>) : st \in RichStreams }

-----------------------------------------------------------------------------
(* hwpExtractor.get_text and hwpExtractor.get_hwp5_text.                   *)

\* the orderings of a list of distinct elements
Orderings(l) == { s \in [1..Len(l) -> Range(l)] : Range(s) = Range(l) }

NumLess(a, b) == a.num < b.num

\* sections = ["BodyText/Section" + str(x) for x in sorted(section_nums)]
GetTextSections(dirs) ==
    CHOOSE s \in Orderings(dirs) :
        \A a, b \in 1..Len(dirs) : a < b => ~NumLess(s[b], s[a])

Raise(e) ==
    /\ exc' = e
    /\ pc' = "done"

Return(v) ==
    /\ result' = v
    /\ pc' = "done"

\* One pass of the record loop of get_text and of get_hwp5_text over buffer
\* b at cursor p with section text st: the cursor and section text after it,
\* the payload taken (rec_data), and the exception it raises
RecordLoopBody(b, p, st) ==
    IF p + 4 > Len(b)
    THEN [exc |-> "struct.error", i |-> p, section_text |-> st, rec_data |-> << >>, took |-> FALSE]
    ELSE LET rec_type == TagAt(b, p)
             rec_len == SizeAt(b, p)
             rec_data == Slice(b, p + 4, p + 4 + rec_len)
             decoded == decode_text(rec_data)
         IN  IF rec_type = SKIP_TAG
             THEN [exc |-> "none", i |-> p + 4 + rec_len, section_text |-> st,
                   rec_data |-> << >>, took |-> FALSE]
             ELSE IF rec_type = PARA_TEXT
             THEN IF decoded = None
                  THEN [exc |-> "TypeError", i |-> p, section_text |-> st,
                        rec_data |-> rec_data, took |-> TRUE]
                  ELSE [exc |-> "none", i |-> p + 4 + rec_len,
                        section_text |-> st \o decoded.s \o NEWLINE,
                        rec_data |-> rec_data, took |-> TRUE]
             ELSE [exc |-> "none", i |-> p + 4 + rec_len, section_text |-> st,
                   rec_data |-> << >>, took |-> FALSE]

\* get_text up to the section loop: the container open and its retry, the
\* directory check, the FileHeader read and the section list
GetTextOpen ==
    /\ pc = "get_text"
    /\ IF ~(doc.kind = "ole" /\ doc.opens)
       THEN /\ pc' = "get_hwp5_text"
            /\ retried' = TRUE
            /\ UNCHANGED << exc, is_zipped, sections, text >>
       ELSE /\ UNCHANGED retried
            /\ IF doc.header = "none" \/ ~doc.summary
               THEN Raise("Exception: not a valid HWP OLE file") /\ UNCHANGED << is_zipped, sections, text >>
               ELSE IF doc.header = "short"
               THEN Raise("IndexError") /\ UNCHANGED << is_zipped, sections, text >>
               ELSE /\ is_zipped' = IF doc.header = "flag1" THEN "True" ELSE "False"
                    /\ sections' = GetTextSections(doc.dirs)
                    /\ text' = << >>
                    /\ pc' = "section"
                    /\ UNCHANGED exc
    /\ UNCHANGED << op, doc, version, k, data, i, section_text, texts, page_results,
                    result, emitted >>

\* the head of one pass of the section loop: read the stream and inflate it;
\* a zlib.error calls self.partial_decompress, which hwpExtractor does not define
GetTextSection ==
    /\ pc = "section"
    /\ k < Len(sections)
    /\ LET raw == Raw(sections[k + 1].stream)
           z == Inflate(raw)
       IN  IF is_zipped = "True" /\ ~z.ok
           THEN Raise("AttributeError") /\ UNCHANGED << data, i, section_text, emitted >>
           ELSE /\ data' = IF is_zipped = "True" THEN z.bytes ELSE raw
                /\ section_text' = << >>
                /\ i' = 0
                /\ emitted' = << >>
                /\ pc' = "records"
                /\ UNCHANGED exc
    /\ UNCHANGED << op, doc, version, is_zipped, sections, k, texts, text, page_results,
                    result, retried >>

\* the section loop has nothing (left) to do: get_text ends without a return
GetTextFallOff ==
    /\ pc = "section"
    /\ k = Len(sections)
    /\ Return(None)
    /\ UNCHANGED << op, doc, version, is_zipped, sections, k, data, i, section_text,
                    texts, text, page_results, exc, emitted, retried >>

\* one pass of the record loop
GetTextRecord ==
    /\ pc = "records"
    /\ i < Len(data)
    /\ LET r == RecordLoopBody(data, i, section_text)
       IN  /\ i' = r.i
           /\ section_text' = r.section_text
           /\ emitted' = IF r.took THEN Append(emitted, r.rec_data) ELSE emitted
           /\ IF r.exc # "none" THEN Raise(r.exc) ELSE UNCHANGED << exc, pc >>
    /\ UNCHANGED << op, doc, version, is_zipped, sections, k, data, texts, text,
                    page_results, result, retried >>

\* after the record loop: the section's text is cleaned and appended, and the
\* return statement, which stands inside the section loop, ends the call
GetTextSectionEnd ==
    /\ pc = "records"
    /\ i >= Len(data)
    /\ text' = text \o clean_text(section_text) \o NEWLINE
    /\ k' = k + 1
    /\ Return(Str(text'))
    /\ UNCHANGED << op, doc, version, is_zipped, sections, data, i, section_text, texts,
                    page_results, exc, emitted, retried >>

IsSectionName(name) == name \in SectionNames

\* get_hwp5_text up to its section loop
Hwp5Open ==
    /\ pc = "get_hwp5_text"
    /\ IF doc.kind # "zip"
       THEN Raise("Exception: not a hwp 5.0 file") /\ UNCHANGED << sections, text >>
       ELSE IF ~doc.opens
       THEN Raise("BadZipFile") /\ UNCHANGED << sections, text >>
       ELSE LET found == SelectSeq(doc.members, LAMBDA m : IsSectionName(m.name))
            IN  IF found = << >>
                THEN Raise("Exception: no section found") /\ UNCHANGED << sections, text >>
                ELSE /\ sections' = found
                     /\ text' = << >>
                     /\ pc' = "hwp5_section"
                     /\ UNCHANGED exc
    /\ UNCHANGED << op, doc, version, is_zipped, k, data, i, section_text, texts,
                    page_results, result, emitted, retried >>

\* the head of one pass of its section loop: a zlib.error keeps the raw bytes
Hwp5Section ==
    /\ pc = "hwp5_section"
    /\ k < Len(sections)
    /\ LET raw == Raw(sections[k + 1].stream)
           z == Inflate(raw)
       IN  data' = IF z.ok THEN z.bytes ELSE raw
    /\ section_text' = << >>
    /\ i' = 0
    /\ emitted' = << >>
    /\ pc' = "hwp5_records"
    /\ UNCHANGED << op, doc, version, is_zipped, sections, k, texts, text, page_results,
                    result, exc, retried >>

Hwp5Record ==
    /\ pc = "hwp5_records"
    /\ i < Len(data)
    /\ LET r == RecordLoopBody(data, i, section_text)
       IN  /\ i' = r.i
           /\ section_text' = r.section_text
           /\ emitted' = IF r.took THEN Append(emitted, r.rec_data) ELSE emitted
           /\ IF r.exc # "none" THEN Raise(r.exc) ELSE UNCHANGED << exc, pc >>
    /\ UNCHANGED << op, doc, version, is_zipped, sections, k, data, texts, text,
                    page_results, result, retried >>

Hwp5SectionEnd ==
    /\ pc = "hwp5_records"
    /\ i >= Len(data)
    /\ text' = text \o clean_text(section_text) \o NEWLINE
    /\ k' = k + 1
    /\ pc' = "hwp5_section"
    /\ UNCHANGED << op, doc, version, is_zipped, sections, data, i, section_text, texts,
                    page_results, result, exc, emitted, retried >>

\* the return after the section loop
Hwp5Return ==
    /\ pc = "hwp5_section"
    /\ k = Len(sections)
    /\ Return(Str(text))
    /\ UNCHANGED << op, doc, version, is_zipped, sections, k, data, i, section_text,
                    texts, text, page_results, exc, emitted, retried >>

-----------------------------------------------------------------------------
(* HWPTextExtractor (src/hwpTextExtractor.py).                             *)

HWP_VERSION_UNKNOWN == 0
HWP_VERSION_3X == 3
HWP_VERSION_5X == 5
HWP_VERSION_HWPX == 6

\* detect_hwp_version: the extension first, then the signature bytes;
\* _verify_hwp5_signature returns HWP_VERSION_5X on each of its paths
detect_hwp_version(d) ==
    IF d.ext = "hwpx" THEN HWP_VERSION_HWPX
    ELSE IF d.kind = "ole" THEN HWP_VERSION_5X
    ELSE IF d.kind = "hwp3" THEN HWP_VERSION_3X
    ELSE HWP_VERSION_UNKNOWN

\* str.isspace and str.isprintable on the Basic Multilingual Plane
IsSpace(c) ==
    \/ c >= 9 /\ c <= 13
    \/ c >= 28 /\ c <= 32
    \/ c \in {133, 160, 5760, 8232, 8233, 8239, 8287, 12288}
    \/ c >= 8192 /\ c <= 8202

IsPrintable(c) ==
    /\ ~IsControlCategory(c)
    /\ c \notin {160, 5760, 8232, 8233, 8239, 8287, 12288}
    /\ ~(c >= 8192 /\ c <= 8202)

\* ''.join(char for char in text if char.isprintable() or char.isspace())
KeepPrintable(s) == SelectSeq(s, LAMBDA ch : IsPrintable(ch) \/ IsSpace(ch))

RECURSIVE LStrip(_)
LStrip(s) == IF s # << >> /\ IsSpace(Head(s)) THEN LStrip(Tail(s)) ELSE s

RECURSIVE RStrip(_)
RStrip(s) ==
    IF s # << >> /\ IsSpace(s[Len(s)]) THEN RStrip(SubSeq(s, 1, Len(s) - 1)) ELSE s

\* text.strip()
Strip(s) == RStrip(LStrip(s))

\* the text a tag-67 record adds to texts (<< >>: nothing is appended)
RecordText(record_data) == Strip(KeepPrintable(DecodeUtf16leIgnore(record_data)))

\* One pass of the while loop of _parse_hwp5_text over data at offset p:
\* brk says the pass left the loop by break
ParseLoopBody(b, p, ts) ==
    LET stop == [brk |-> TRUE, offset |-> p, texts |-> ts, record_data |-> << >>, took |-> FALSE]
        tag_id == TagAt(b, p)
        size12 == SizeAt(b, p)
        extended == size12 = EXTENDED_SIZE
        o1 == p + 4
    IN  IF o1 > Len(b) THEN stop
        ELSE IF extended /\ o1 + 4 > Len(b) THEN [stop EXCEPT !.offset = o1]
        ELSE LET size == IF extended THEN U32At(b, o1) ELSE size12
                 o2 == IF extended THEN o1 + 4 ELSE o1
                 record_data == Slice(b, o2, o2 + size)
                 t == RecordText(record_data)
             IN  IF o2 + size > Len(b) THEN [stop EXCEPT !.offset = o2]
                 ELSE [brk |-> FALSE, offset |-> o2 + size,
                       texts |-> IF tag_id = PARA_TEXT /\ t # << >> THEN Append(ts, t) ELSE ts,
                       record_data |-> record_data, took |-> tag_id = PARA_TEXT]

\* the decimal digits of n, as str(n) writes them
RECURSIVE Digits(_)
Digits(n) == IF n < 10 THEN << 48 + n >> ELSE Digits(n \div 10) \o << 48 + (n % 10) >>

\* a < b for two strings, as Python compares them
RECURSIVE LexLess(_, _)
LexLess(a, b) ==
    IF b = << >> THEN FALSE
    ELSE IF a = << >> THEN TRUE
    ELSE IF Head(a) # Head(b) THEN Head(a) < Head(b)
    ELSE LexLess(Tail(a), Tail(b))

\* ['BodyText', 'Section<a>'] < ['BodyText', 'Section<b>']
EntryLess(a, b) == LexLess(Digits(a.num), Digits(b.num))

\* sorted(sections)
SortedEntries(l) ==
    CHOOSE s \in Orderings(l) :
        \A a, b \in 1..Len(l) : a < b => ~EntryLess(s[b], s[a])

\* the model's package names in Python's string order
NameOrder ==
    << "BodyText/section0.xml", "Contents/content.hpf",
       "Contents/section0.xml", "Contents/section1.xml" >>

NameRank(name) == CHOOSE n \in 1..Len(NameOrder) : NameOrder[n] = name

MemberLess(a, b) == NameRank(a.name) < NameRank(b.name)

\* sorted(section_files)
SortedMembers(l) ==
    CHOOSE s \in Orderings(l) :
        \A a, b \in 1..Len(l) : a < b => ~MemberLess(s[b], s[a])

\* _extract_text_from_xml: the text of every element whose tag ends with
\* 't' and whose text is not empty, in document order, joined by a space.
\* A tree is its paragraphs, a paragraph its runs, a run the texts of its
\* hp:t children (<< >>: an hp:t without text)
AllTexts(xml) ==
    SelectSeq(Concat(Concat(xml.paras)), LAMBDA t : t # << >>)

ExtractTextFromXml(xml) == Join(SPACE, AllTexts(xml))

\* the images of the document, each put to the transcription service:
\* the answers that are not empty
VlmTexts(d) == SelectSeq(d.vlm, LAMBDA t : t # << >>)

\* "\n".join(page_content) if page_content else ""
PageText(page_content) == Join(NEWLINE, page_content)

\* extract_from_hwp: the version is detected, then the extractor of that
\* version runs; an unknown version returns []
ExtractFromHwp ==
    /\ pc = "extract_from_hwp"
    /\ version' = detect_hwp_version(doc)
    /\ page_results' = << >>
    /\ IF version' = HWP_VERSION_HWPX THEN pc' = "_extract_from_hwpx" /\ UNCHANGED result
       ELSE IF version' = HWP_VERSION_5X THEN pc' = "_extract_from_hwp5" /\ UNCHANGED result
       ELSE IF version' = HWP_VERSION_3X THEN pc' = "_extract_from_hwp3" /\ UNCHANGED result
       ELSE Return(List(<< >>))
    /\ UNCHANGED << op, doc, is_zipped, sections, k, data, i, section_text, texts, text,
                    exc, emitted, retried >>

\* page_results if page_results else [""]
OrEmptyPage(pages) == IF pages # << >> THEN pages ELSE << << >> >>

\* _extract_from_hwp5 up to its section loop; an exception (the container
\* does not open, the header is too short to unpack) leaves by the outer
\* except clause
X5Open ==
    /\ pc = "_extract_from_hwp5"
    /\ IF ~doc.opens \/ doc.header = "short"
       THEN Return(List(OrEmptyPage(page_results))) /\ UNCHANGED << is_zipped, sections >>
       ELSE /\ is_zipped' = IF doc.header = "none" THEN "unbound"
                            ELSE IF doc.header = "flag1" THEN "True" ELSE "False"
            /\ sections' = SortedEntries(doc.dirs)
            /\ pc' = "x5_section"
            /\ UNCHANGED result
    /\ UNCHANGED << op, doc, version, k, data, i, section_text, texts, text, page_results,
                    exc, emitted, retried >>

\* the head of one pass of the section loop.  With is_compressed unbound the
\* read raises NameError inside the try: the pass goes on to the images with
\* an empty page_content and appends the section's entry
X5Section ==
    /\ pc = "x5_section"
    /\ k < Len(sections)
    /\ IF is_zipped = "unbound"
       THEN /\ page_results' = Append(page_results, PageText(VlmTexts(doc)))
            /\ k' = k + 1
            /\ UNCHANGED << data, i, texts, emitted, pc >>
       ELSE /\ LET raw == Raw(sections[k + 1].stream)
                   z == Inflate(raw)
               IN  data' = IF is_zipped = "True" /\ z.ok THEN z.bytes ELSE raw
            /\ i' = 0
            /\ texts' = << >>
            /\ emitted' = << >>
            /\ pc' = "x5_records"
            /\ UNCHANGED << page_results, k >>
    /\ UNCHANGED << op, doc, version, is_zipped, sections, section_text, text, result,
                    exc, retried >>

\* one pass of the while loop of _parse_hwp5_text
X5Record ==
    /\ pc = "x5_records"
    /\ i < Len(data) - 4
    /\ LET r == ParseLoopBody(data, i, texts)
       IN  /\ i' = r.offset
           /\ texts' = r.texts
           /\ emitted' = IF r.took THEN Append(emitted, r.record_data) ELSE emitted
           /\ pc' = IF r.brk THEN "x5_parsed" ELSE "x5_records"
    /\ UNCHANGED << op, doc, version, is_zipped, sections, k, data, section_text, text,
                    page_results, result, exc, retried >>

\* _parse_hwp5_text returns ' '.join(texts); the section's entry is its text
\* and the transcribed images, joined by newlines
X5SectionEnd ==
    /\ \/ pc = "x5_records" /\ i >= Len(data) - 4
       \/ pc = "x5_parsed"
    /\ LET parsed == Join(SPACE, texts)
           page_content == (IF parsed # << >> THEN << parsed >> ELSE << >>) \o VlmTexts(doc)
       IN  page_results' = Append(page_results, PageText(page_content))
    /\ k' = k + 1
    /\ pc' = "x5_section"
    /\ UNCHANGED << op, doc, version, is_zipped, sections, data, i, section_text, texts,
                    text, result, exc, emitted, retried >>

X5Return ==
    /\ pc = "x5_section"
    /\ k = Len(sections)
    /\ Return(List(OrEmptyPage(page_results)))
    /\ UNCHANGED << op, doc, version, is_zipped, sections, k, data, i, section_text,
                    texts, text, page_results, exc, emitted, retried >>

\* content.decode('cp949', errors='ignore') for a body over the bytes
\* 00..7F and FF: FF is dropped
DecodeCp949Ignore(b) == SelectSeq(b, LAMBDA x : x < 128)

\* _extract_from_hwp3: the bytes after the two 256-byte headers, decoded,
\* filtered and stripped, are the only page; a file that cannot be read
\* gives [""]
X3Extract ==
    /\ pc = "_extract_from_hwp3"
    /\ LET t == Strip(KeepPrintable(DecodeCp949Ignore(doc.body)))
           pages == IF doc.opens /\ t # << >> THEN << t >> ELSE << >>
       IN  /\ page_results' = pages
           /\ Return(List(OrEmptyPage(pages)))
    /\ UNCHANGED << op, doc, version, is_zipped, sections, k, data, i, section_text,
                    texts, text, exc, emitted, retried >>

\* _extract_from_hwpx up to its section loop; zipfile.ZipFile raising leaves
\* through the except clause of extract_from_hwp, which returns []
X6Open ==
    /\ pc = "_extract_from_hwpx"
    /\ IF doc.kind # "zip" \/ ~doc.opens
       THEN Return(List(<< >>)) /\ UNCHANGED sections
       ELSE /\ sections' = SortedMembers(SelectSeq(doc.members, LAMBDA m : IsSectionName(m.name)))
            /\ pc' = "x6_section"
            /\ UNCHANGED result
    /\ UNCHANGED << op, doc, version, is_zipped, k, data, i, section_text, texts, text,
                    page_results, exc, emitted, retried >>

\* one pass of its section loop; ET.fromstring raising leaves through the
\* except clause of extract_from_hwp (the model's XML holds no picture and
\* _render_table_to_image returns None, so no image is transcribed)
X6Section ==
    /\ pc = "x6_section"
    /\ k < Len(sections)
    /\ LET xml == sections[k + 1].xml
           text_content == ExtractTextFromXml(xml)
           page_content == IF text_content # << >> THEN << text_content >> ELSE << >>
       IN  IF xml.kind = "malformed"
           THEN Return(List(<< >>)) /\ UNCHANGED << page_results, k >>
           ELSE /\ page_results' = Append(page_results, PageText(page_content))
                /\ k' = k + 1
                /\ UNCHANGED << result, pc >>
    /\ UNCHANGED << op, doc, version, is_zipped, sections, data, i, section_text, texts,
                    text, exc, emitted, retried >>

X6Return ==
    /\ pc = "x6_section"
    /\ k = Len(sections)
    /\ Return(List(page_results))
    /\ UNCHANGED << op, doc, version, is_zipped, sections, k, data, i, section_text,
                    texts, text, page_results, exc, emitted, retried >>

-----------------------------------------------------------------------------
(* hwpxExtractor.extract_text (src/hwpxExtractor.py).                      *)

MsgSectionNotFound ==
    << 69, 82, 82, 79, 82, 32, 58, 58, 32, 46, 104, 119, 112, 120, 32, 53581, 49828,
       53944, 32, 52628, 52636, 32, 50724, 47448, 32, 62, 32, 115, 101, 99, 116, 105,
       111, 110, 32, 54028, 51068, 51012, 32, 52286, 51012, 32, 49688, 32, 50630,
       49845, 45768, 45796, 46 >>

MsgNotZip ==
    << 73, 78, 70, 79, 32, 58, 58, 32, 46, 104, 119, 112, 120, 32, 53581, 49828, 53944,
       32, 52628, 52636, 32, 62, 32, 90, 73, 80, 32, 54028, 51068, 51060, 32, 50500,
       45784, 46, 32, 52628, 44032, 32, 52376, 47532, 32, 54596, 50836, 46 >>

MsgErrorPrefix ==
    << 69, 82, 82, 79, 82, 32, 58, 58, 32, 46, 104, 119, 112, 120, 32, 53581, 49828,
       53944, 32, 52628, 52636, 32, 50724, 47448, 32, 62, 32 >>

\* str(e) of the exception the outer except clause caught, written here as
\* the name of its class
ExcText(e) ==
    CASE e = "NameError" -> << 78, 97, 109, 101, 69, 114, 114, 111, 114 >>
      [] e = "ParseError" -> << 80, 97, 114, 115, 101, 69, 114, 114, 111, 114 >>
      [] e = "BadZipFile" -> << 66, 97, 100, 90, 105, 112, 70, 105, 108, 101 >>

\* f"ERROR :: .hwpx ... > {str(e)}"
ErrorMessage(e) == Str(MsgErrorPrefix \o ExcText(e))

\* the members z.open is tried on, in the order of the nested try blocks
Candidates == << "Contents/section0.xml", "BodyText/section0.xml", "Contents/content.hpf" >>

HasMember(d, name) == \E n \in 1..Len(d.members) : d.members[n].name = name
MemberOf(d, name) == d.members[CHOOSE n \in 1..Len(d.members) : d.members[n].name = name]

\* a join on ' ' in place of the join on the newline
RunSeparatorSpace == SPACE

\* the separator of the join that ends each branch
RunSeparator == NEWLINE

\* the text one run adds: element = run.find('hp:t') is its first hp:t
\* child; it is appended when it exists and its text is not None
RunText(run) == IF run # << >> /\ run[1] # << >> THEN << run[1] >> ELSE << >>

RECURSIVE RunTexts(_)
RunTexts(runs) == IF runs = << >> THEN << >> ELSE RunText(Head(runs)) \o RunTexts(Tail(runs))

\* texts after the two for loops over root.findall('.//hp:p') and
\* paragraph.findall('.//hp:run'), for paragraphs that are not nested
ParagraphTexts(xml) == RunTexts(Concat(xml.paras))

\* extract_text up to the first z.open
XtOpen ==
    /\ pc = "extract_text"
    /\ IF doc.kind # "zip" THEN Return(Str(MsgNotZip))
       ELSE IF ~doc.opens THEN Return(ErrorMessage("BadZipFile"))
       ELSE pc' = "xt_candidate" /\ UNCHANGED result
    /\ UNCHANGED << op, doc, version, is_zipped, sections, k, data, i, section_text,
                    texts, text, page_results, exc, emitted, retried >>

\* the try block of candidate k + 1: a missing member (KeyError) goes on to
\* the next candidate; the third block parses section_xml, which no earlier
\* block has bound, and the NameError is caught by the outer except clause,
\* as is the ParseError of a member that is not well-formed
XtCandidate ==
    /\ pc = "xt_candidate"
    /\ k < Len(Candidates)
    /\ IF ~HasMember(doc, Candidates[k + 1])
       THEN k' = k + 1 /\ UNCHANGED << texts, result, pc >>
       ELSE IF k + 1 = 3
       THEN Return(ErrorMessage("NameError")) /\ UNCHANGED << texts, k >>
       ELSE IF MemberOf(doc, Candidates[k + 1]).xml.kind = "malformed"
       THEN Return(ErrorMessage("ParseError")) /\ UNCHANGED << texts, k >>
       ELSE /\ texts' = ParagraphTexts(MemberOf(doc, Candidates[k + 1]).xml)
            /\ Return(Str(Join(RunSeparator, texts')))
            /\ UNCHANGED k
    /\ UNCHANGED << op, doc, version, is_zipped, sections, data, i, section_text, text,
                    page_results, exc, emitted, retried >>

\* the innermost except KeyError
XtNotFound ==
    /\ pc = "xt_candidate"
    /\ k = Len(Candidates)
    /\ Return(Str(MsgSectionNotFound))
    /\ UNCHANGED << op, doc, version, is_zipped, sections, k, data, i, section_text,
                    texts, text, page_results, exc, emitted, retried >>

-----------------------------------------------------------------------------
(* hwpExtractor.clean_text, called on a string and again on its result.    *)

CleanText ==
    /\ pc = "clean_text"
    /\ text' = clean_text(doc.s)
    /\ pc' = "clean_text_again"
    /\ UNCHANGED << op, doc, version, is_zipped, sections, k, data, i, section_text,
                    texts, page_results, result, exc, emitted, retried >>

CleanTextAgain ==
    /\ pc = "clean_text_again"
    /\ Return(Str(clean_text(text)))
    /\ UNCHANGED << op, doc, version, is_zipped, sections, k, data, i, section_text,
                    texts, text, page_results, exc, emitted, retried >>

-----------------------------------------------------------------------------
(* The documents of the xml-package variant and of the legacy variant.     *)

Hi == << 72, 105 >>
There == << 116, 104, 101, 114, 101 >>

\* paragraphs: no run; one run "Hi"; runs "Hi" and "there"; a run without
\* hp:t and a run "there"; a run whose hp:t has no text; a run with two hp:t
ParagraphKinds ==
    { << >>,
      << << Hi >> >>,
      << << Hi >>, << There >> >>,
      << << >>, << There >> >>,
      << << << >> >> >>,
      << << Hi, There >> >> }

Xml(paras) == [kind |-> "tree", paras |-> paras]

XmlTrees == { Xml(ps) : ps \in SeqsUpTo(ParagraphKinds, MaxParas) }

\* what a member other than the chosen one holds: one run naming its rank
FillerXml(name) == Xml(<< << << << 48 + NameRank(name) >> >> >> >>)

XmlStream == Stream(<< >>, << 60, 63, 120, 109, 108 >>, "plain")

\* the archive order of the members, which is not the sorted order
ArchiveOrder ==
    << "Contents/section1.xml", "Contents/content.hpf",
       "BodyText/section0.xml", "Contents/section0.xml" >>

\* archives with the members present, the member chosen holding xml
XmlPackages ==
    { Doc("zip", "hwpx", TRUE, "none", FALSE, << >>,
          [n \in 1..Len(SelectSeq(ArchiveOrder, LAMBDA nm : nm \in present)) |->
              LET nm == SelectSeq(ArchiveOrder, LAMBDA x : x \in present)[n]
              IN  Member(nm, XmlStream, IF nm = chosen THEN xml ELSE FillerXml(nm))],
          << >>) :
        present \in SUBSET PackageNames, chosen \in PackageNames,
        xml \in XmlTrees \cup {NoXml} }

Hwp3Docs ==
    { Doc("hwp3", "hwp", o, "none", FALSE, << >>, << >>, b) :
        o \in BOOLEAN,
        b \in { << >>, << 104, 101, 108, 108, 111, 1, 2 >>, << 32, 32 >>, << 32, 104, 255, 105, 10 >> } }

OleVlmDocs ==
    { [d EXCEPT !.vlm = v] : d \in OleSectionDocs, v \in { << << 86 >> >>, << << >>, << 86 >> >> } }

CleanChars == { 65, 10, 19968, 40959, 8203 }

Strings == { Str(s) : s \in SeqsUpTo(CleanChars, MaxStrLen) }

-----------------------------------------------------------------------------
(* The calls.                                                              *)

Call(f, d) ==
    /\ op = f
    /\ pc = f
    /\ doc = d

Init ==
    /\ \/ \E d \in OleParserDocs \cup OleSectionDocs \cup UnopenableDocs \cup RecordPackages
                    \cup Hwp3Docs :
            Call("get_text", d)
       \/ \E d \in OleParserDocs \cup OleSectionDocs \cup OleVlmDocs \cup UnopenableDocs
                    \cup Hwp3Docs \cup XmlPackages \cup RecordPackages :
            Call("extract_from_hwp", d)
       \/ \E d \in XmlPackages \cup UnopenableDocs : Call("extract_text", d)
       \/ \E d \in Strings : Call("clean_text", d)
    /\ version = HWP_VERSION_UNKNOWN
    /\ is_zipped = "unbound"
    /\ sections = << >>
    /\ k = 0
    /\ data = << >>
    /\ i = 0
    /\ section_text = << >>
    /\ texts = << >>
    /\ text = << >>
    /\ page_results = << >>
    /\ result = None
    /\ exc = "none"
    /\ emitted = << >>
    /\ retried = FALSE

Next ==
    \/ GetTextOpen
    \/ GetTextSection
    \/ GetTextFallOff
    \/ GetTextRecord
    \/ GetTextSectionEnd
    \/ Hwp5Open
    \/ Hwp5Section
    \/ Hwp5Record
    \/ Hwp5SectionEnd
    \/ Hwp5Return
    \/ ExtractFromHwp
    \/ X5Open
    \/ X5Section
    \/ X5Record
    \/ X5SectionEnd
    \/ X5Return
    \/ X3Extract
    \/ X6Open
    \/ X6Section
    \/ X6Return
    \/ XtOpen
    \/ XtCandidate
    \/ XtNotFound
    \/ CleanText
    \/ CleanTextAgain

Spec == Init /\ [][Next]_vars

-----------------------------------------------------------------------------
(* Properties.                                                             *)

\* the payloads of the tag-67 records of a stream, in buffer order
TextPayloads(st) ==
    LET RECURSIVE Of(_)
        Of(rs) == IF rs = << >> THEN << >>
                  ELSE IF Head(rs).tag = PARA_TEXT
                  THEN << Head(rs).payload >> \o Of(Tail(rs))
                  ELSE Of(Tail(rs))
    IN  Of(st.recs)

IsPrefix(a, b) == Len(a) <= Len(b) /\ SubSeq(b, 1, Len(a)) = a

\* a buffer made of whole records only, stored as it is
WellFormed(st) == st.tail = << >> /\ st.stored = "plain"

\* the compound file opened and its administrative streams are there
Opened == doc.kind = "ole" /\ doc.opens /\ doc.header \in {"flag0", "flag1"} /\ doc.summary

\* C1: get_text on a compound-binary document with n >= 1 BodyText sections
\* has processed all n sections when it returns.
C1_AllSectionsProcessed ==
    (op = "get_text" /\ pc = "done" /\ exc = "none" /\ ~retried /\ Len(sections) >= 1)
        => k = Len(sections)

\* C2: the list extract_from_hwp returns has one element per section that
\* was enumerated for the detected version (the legacy variant has its sole
\* section, an unknown version none); no section is dropped.
C2_OneEntryPerSection ==
    (op = "extract_from_hwp" /\ pc = "done")
        => /\ result.kind = "list"
           /\ Len(result.s) = IF version = HWP_VERSION_3X THEN 1 ELSE Len(sections)

\* C3: while a compressed section whose stream does not inflate is the
\* current section, no exception leaves the orchestrator.
C3_DeflateFailureAbsorbed ==
    (/\ op \in {"get_text", "extract_from_hwp"}
     /\ is_zipped = "True"
     /\ k < Len(sections)
     /\ ~Inflate(Raw(sections[k + 1].stream)).ok)
        => exc = "none"

\* C4: decode_text returns a string for every payload, the empty string when
\* no encoding decodes it, and the record loop raises nothing on its result.
C4_DecodeFailureGivesEmptyString ==
    /\ (/\ pc \in {"records", "hwp5_records"}
        /\ i + 4 <= Len(data)
        /\ TagAt(data, i) = PARA_TEXT)
          => LET rec_data == Slice(data, i + 4, i + 4 + SizeAt(data, i))
             IN  /\ decode_text(rec_data).kind = "str"
                 /\ (\A n \in 1..Len(Encodings) : ~Decode(Encodings[n], rec_data).ok)
                       => decode_text(rec_data) = Str(<< >>)
    /\ exc # "TypeError"

\* C5: over a buffer of well-formed records the record loop takes exactly
\* the payloads of the tag-67 records, in buffer order, and its cursor ends
\* behind the last record: every other record was stepped over whole.
C5_ParserEmitsParagraphPayloads ==
    /\ (/\ op = "get_text" /\ ~retried /\ pc = "done" /\ k = 1
        /\ exc \in {"none", "TypeError"}
        /\ is_zipped = "False" /\ WellFormed(sections[1].stream))
          => /\ exc = "none" => i = Len(data)
             /\ IsPrefix(emitted, TextPayloads(sections[1].stream))
             /\ exc = "none" => emitted = TextPayloads(sections[1].stream)
    /\ (/\ op = "extract_from_hwp" /\ pc = "x5_section" /\ k >= 1
        /\ is_zipped = "False" /\ WellFormed(sections[k].stream))
          => /\ i = Len(data)
             /\ emitted = TextPayloads(sections[k].stream)

\* C6: a pass of a record loop over a whole record whose 12-bit size field
\* is 0xFFF moves the cursor by 8 + the size the next four bytes hold.
C6_ExtendedSizeRead ==
    [][ (/\ pc \in {"records", "hwp5_records", "x5_records"}
         /\ i + 8 <= Len(data)
         /\ SizeAt(data, i) = EXTENDED_SIZE
         /\ i + 8 + U32At(data, i + 4) <= Len(data)
         /\ exc' = "none")
            => i' = i + 8 + U32At(data, i + 4) ]_vars

\* C7: on every buffer the record loop raises nothing, and what it takes is
\* payloads of whole records only: a truncated trailing record gives none.
C7_ParserTotalOnAnyBuffer ==
    /\ exc # "struct.error"
    /\ (/\ op \in {"get_text", "extract_from_hwp"} /\ ~retried
        /\ pc \in {"records", "x5_records", "x5_parsed"}
        /\ is_zipped = "False"
        /\ sections[k + 1].stream.stored = "plain"
        /\ \A n \in 1..Len(sections[k + 1].stream.recs) : ~sections[k + 1].stream.recs[n].ext)
          => IsPrefix(emitted, TextPayloads(sections[k + 1].stream))

\* C8: clean_text is idempotent: cleaning the cleaned string changes nothing.
C8_CleanTextIdempotent ==
    (op = "clean_text" /\ pc = "done") => result = Str(text)

\* a string with Chinese characters and control characters around a letter
\* has been cleaned twice
C8_Witness ==
    /\ op = "clean_text"
    /\ pc = "done"
    /\ doc.s = << 19968, 65, 10, 40959 >>
    /\ text = << 65 >>
    /\ result = Str(<< 65 >>)

\* C9: a compound file that opens and lists no BodyText entry makes the
\* extraction raise, and the retry path is taken only when the open fails.
C9_MissingBodyTextRaises ==
    /\ (op = "get_text" /\ pc = "done" /\ Opened /\ doc.dirs = << >>)
          => exc # "none" /\ ~retried
    /\ (op = "extract_from_hwp" /\ pc = "done" /\ Opened /\ doc.dirs = << >>)
          => exc # "none"
    /\ retried => ~(doc.kind = "ole" /\ doc.opens)

\* the first fallback member is the one extract_text reads
FallbackOnly ==
    /\ op = "extract_text"
    /\ doc.kind = "zip" /\ doc.opens
    /\ ~HasMember(doc, "Contents/section0.xml")
    /\ HasMember(doc, "BodyText/section0.xml")
    /\ MemberOf(doc, "BodyText/section0.xml").xml.kind = "tree"

\* the texts of the runs of a tree, in document order: of each run the text
\* of its first hp:t child, when it has one and the text is not empty
RunValues(xml) ==
    LET runs == Concat(xml.paras)
        has(n) == runs[n] # << >> /\ runs[n][1] # << >>
        RECURSIVE From(_)
        From(n) == IF n > Len(runs) THEN << >>
                   ELSE IF has(n) THEN << runs[n][1] >> \o From(n + 1)
                   ELSE From(n + 1)
    IN  From(1)

Ascending(l) == \A a, b \in 1..Len(l) : a < b => l[a].num < l[b].num

\* C11: both compound-binary orchestrators hold the BodyText sections in
\* ascending order of their numeric suffix (Section2 before Section10) from
\* the enumeration on, and the section they read next is the next of that list.
C11_SectionsInNumericOrder ==
    /\ (op = "get_text" /\ ~retried) => Ascending(sections)
    /\ (op = "extract_from_hwp" /\ version = HWP_VERSION_5X) => Ascending(sections)
    /\ (/\ op \in {"get_text", "extract_from_hwp"} /\ doc.kind = "ole"
        /\ pc \in {"section", "records", "x5_section", "x5_records", "x5_parsed"})
          => Range(sections) = Range(doc.dirs)

\* the first of the candidate members that the archive holds
FirstCandidate(d) ==
    Candidates[CHOOSE n \in 1..Len(Candidates) :
                  /\ HasMember(d, Candidates[n])
                  /\ \A m \in 1..(n - 1) : ~HasMember(d, Candidates[m])]

\* C12: extract_text returns the text runs of the first of the candidates
\* Contents/section0.xml, BodyText/section0.xml, Contents/content.hpf that
\* the archive holds, whichever of the three it is; it returns the
\* section-not-found message only when the archive holds none of them; and
\* no exception leaves it.
C12_FirstExistingCandidate ==
    /\ op = "extract_text" => exc = "none"
    /\ (op = "extract_text" /\ pc = "done" /\ doc.kind = "zip" /\ doc.opens)
          => IF \A n \in 1..Len(Candidates) : ~HasMember(doc, Candidates[n])
             THEN result = Str(MsgSectionNotFound)
             ELSE /\ result # Str(MsgSectionNotFound)
                  /\ MemberOf(doc, FirstCandidate(doc)).xml.kind = "tree"
                        => result = Str(Join(<< 10 >>,
                                 RunValues(MemberOf(doc, FirstCandidate(doc)).xml)))

\* the decoded and sanitized texts of a list of payloads that all decode
RecordTexts(payloads) ==
    [n \in 1..Len(payloads) |-> clean_text(decode_text(payloads[n]).s)]

\* C13: the text get_text returns for a section of whole records with at
\* least one tag-67 record is the decoded and sanitized texts of these
\* records in record order, separated by newlines, and one trailing newline.
C13_RecordTextsSeparatedByNewlines ==
    (/\ op = "get_text" /\ ~retried /\ pc = "done" /\ exc = "none" /\ k = 1
     /\ is_zipped = "False"
     /\ WellFormed(sections[1].stream)
     /\ \A n \in 1..Len(sections[1].stream.recs) : ~sections[1].stream.recs[n].ext
     /\ TextPayloads(sections[1].stream) # << >>)
        => result = Str(Join(<< 10 >>, RecordTexts(TextPayloads(sections[1].stream)))
                          \o << 10 >>)

=============================================================================
